---- MODULE Spec2Model ----
(***************************************************************************)
(* Model of the dioxus-server request gateway:                             *)
(*   src/src/serverfn.rs  server-function dispatch (make_handler_native)   *)
(*   src/src/server.rs    route registration, static assets, render_handler*)
(*                                                                         *)
(* Text is modelled as sequences of one-character strings, so that         *)
(* formatting, substring search and splitting are computed, not assumed.   *)
(* Option<T> is modelled as a sequence of length 0 (None) or 1 (Some).     *)
(***************************************************************************)
EXTENDS Integers, Sequences, FiniteSets, TLC

\* ------------------------------------------------------------------ bounds
\* number of server-function requests in flight in one behaviour
MaxReq == 2
\* number of workers of the LocalPoolHandle (available_parallelism on the host)
NumWorkers == 2
\* how many times, over all requests, a handler future returns Pending
MaxYields == 1
\* how many response headers, over all requests, handlers add to their contexts
MaxCtxOps == 2

Reqs == 1..MaxReq
Workers == 1..NumWorkers

None == <<>>
Some(x) == <<x>>
IsSome(o) == Len(o) = 1
Unwrap(o) == o[1]

\* ------------------------------------------------------------------ text
\* "text/html", the needle of accepts_html
TextHtml == <<"t","e","x","t","/","h","t","m","l">>

\* str::contains
StrContains(s, pat) ==
  \E i \in 0..(Len(s) - Len(pat)) : SubSeq(s, i + 1, i + Len(pat)) = pat

\* A byte outside visible ASCII is written "<80>"; HeaderValue::to_str fails on it.
NonAscii == "<80>"
to_str(v) == IF \E i \in 1..Len(v) : v[i] = NonAscii THEN None ELSE Some(v)

\* ------------------------------------------------------------------ http::HeaderMap
\* A header map is a sequence of entries [name, vals] in insertion order of the
\* names; vals is the non-empty sequence of that name's values.
HIndex(h, n) == {i \in 1..Len(h) : h[i].name = n}
HContainsKey(h, n) == HIndex(h, n) # {}
HPos(h, n) == CHOOSE i \in HIndex(h, n) : TRUE

\* HeaderMap::get: the first value of the name
HGet(h, n) == IF HContainsKey(h, n) THEN Some(h[HPos(h, n)].vals[1]) ELSE None

\* HeaderMap::get_all, as a sequence
HGetAll(h, n) == IF HContainsKey(h, n) THEN h[HPos(h, n)].vals ELSE <<>>

\* HeaderMap::insert: replaces every value of the name
HInsert(h, n, v) ==
  IF HContainsKey(h, n)
  THEN [h EXCEPT ![HPos(h, n)].vals = <<v>>]
  ELSE Append(h, [name |-> n, vals |-> <<v>>])

\* HeaderMap::append: adds one more value to the name
HAppend(h, n, v) ==
  IF HContainsKey(h, n)
  THEN [h EXCEPT ![HPos(h, n)].vals = Append(@, v)]
  ELSE Append(h, [name |-> n, vals |-> <<v>>])

\* HeaderMap::into_iter: (Some(name), first value), then (None, value) for each
\* further value of the same name
RECURSIVE EntryIter(_, _, _)
EntryIter(n, vals, i) ==
  IF i > Len(vals) THEN <<>>
  ELSE <<[key |-> IF i = 1 THEN Some(n) ELSE None, val |-> vals[i]]>>
         \o EntryIter(n, vals, i + 1)

RECURSIVE HIntoIter(_)
HIntoIter(h) ==
  IF h = <<>> THEN <<>>
  ELSE EntryIter(h[1].name, h[1].vals, 1) \o HIntoIter(Tail(h))

\* Extend<(Option<HeaderName>, T)> for HeaderMap<T>: an item with a name is
\* written with the entry's insert (replacing what an occupied entry held), an
\* item without a name is appended to the entry of the item before it.
RECURSIVE ExtendFrom(_, _, _, _)
ExtendFrom(h, it, i, cur) ==
  IF i > Len(it) THEN h
  ELSE IF IsSome(it[i].key)
       THEN ExtendFrom(HInsert(h, Unwrap(it[i].key), it[i].val), it, i + 1,
                       Unwrap(it[i].key))
       ELSE ExtendFrom(HAppend(h, cur, it[i].val), it, i + 1, cur)

HExtend(h, other) == ExtendFrom(h, HIntoIter(other), 1, "")

\* every (name, value) of a header map, in iteration order
RECURSIVE HPairs(_)
HPairs(h) ==
  IF h = <<>> THEN <<>>
  ELSE [i \in 1..Len(h[1].vals) |-> <<h[1].name, h[1].vals[i]>>] \o HPairs(Tail(h))

Range(s) == {s[i] : i \in 1..Len(s)}

RECURSIVE SumTo(_, _)
SumTo(f, n) == IF n = 0 THEN 0 ELSE f[n] + SumTo(f, n - 1)

\* ------------------------------------------------------------------ values
StatusFound == 302
StatusInternalServerError == 500

VForm == <<"/","f","o","r","m">>
VDone == <<"/","d","o","n","e">>
VCtx == <<"/","c","t","x">>
VJson == <<"a","p","p","/","j","s","o","n">>
VHtmlList == <<"a","/","b",",">> \o TextHtml \o <<";","q","=","1">>
VHtmlUpper == <<"T","E","X","T","/","H","T","M","L">>
VHtmlNonAscii == TextHtml \o <<NonAscii>>
V1 == <<"1">>
V2 == <<"2">>
V3 == <<"3">>

Hdr(n, v) == <<[name |-> n, vals |-> <<v>>]>>
Hdr2(n, v, w) == <<[name |-> n, vals |-> <<v, w>>]>>

\* The requests the concurrent specification dispatches.
RequestChoices ==
  { [headers |-> Hdr("accept", TextHtml) \o Hdr("referer", VForm)] }

\* The requests the single-request specification dispatches.
RequestChoicesWide ==
  { [headers |-> Hdr("accept", TextHtml) \o Hdr("referer", VForm)],
    [headers |-> Hdr("referer", VForm) \o Hdr("accept", VHtmlList)],
    [headers |-> Hdr("accept", TextHtml)],
    [headers |-> Hdr("referer", VForm)],
    [headers |-> Hdr("accept", VJson) \o Hdr("referer", VForm)],
    [headers |-> Hdr2("accept", VJson, TextHtml) \o Hdr("referer", VForm)],
    [headers |-> Hdr("accept", VHtmlUpper) \o Hdr("referer", VForm)],
    [headers |-> Hdr("accept", VHtmlNonAscii) \o Hdr("referer", VForm)],
    [headers |-> <<>>] }

Bodies == <<"payload-1", "payload-2", "payload-3", "payload-4">>
CtxValues == <<<<"c","1">>, <<"c","2">>, <<"c","3">>, <<"c","4">>>>

\* What a handler of the concurrent specification returns / adds to its context.
HandlerResponses(r) ==
  { [status |-> 200, headers |-> Hdr("x", V1), body |-> Bodies[r]] }
CtxOps(r) == { [op |-> "insert", name |-> "x", val |-> CtxValues[r]] }

\* What a handler of the single-request specification returns / adds.
HandlerResponsesWide(r) ==
  { [status |-> st, headers |-> h, body |-> Bodies[r]] :
      st \in {200, 303},
      h \in { <<>>, Hdr("x", V1), Hdr("location", VDone),
              Hdr("x", V1) \o Hdr("location", VDone), Hdr2("x", V1, V3) } }
CtxOpsWide(r) ==
  { [op |-> o, name |-> n, val |-> v] :
      o \in {"insert", "append"}, n \in {"x"}, v \in {V2, V3} }
  \cup { [op |-> "insert", name |-> "location", val |-> VCtx],
         [op |-> "insert", name |-> "y", val |-> V2] }

\* ------------------------------------------------------------------ state
VARIABLES
  debug_assertions, \* cfg!(debug_assertions) of the build
  pc,          \* per request: where its endpoint / pinned unit stands
  request,     \* per request: the inbound request
  worker,      \* per request: the worker spawn_pinned chose (0: none yet)
  polling,     \* per worker: the request whose future the worker is polling (0: none)
  ambient,     \* per worker: the context installed in the task-local slot (0: none)
  ctx,         \* per request: its FullstackContext
  referrer,    \* per request: the captured Referer (Option)
  accepts_html,\* per request: the captured accepts_html flag
  response,    \* per request: the `response` local of the scope (Option)
  result,      \* per request: what the JoinHandle resolved to: "none", "ok", "err"
  reply,       \* per request: the response the endpoint returned (Option)
  yields,      \* per request: how often its handler has returned Pending
  steps,       \* per request: history of <<step, worker it ran on>>
  handled,     \* per request: history, the response the handler returned (Option)
  own,         \* per request: history, the headers its handler asked to add
  nops,        \* per request: history, number of header additions issued
  issued,      \* per request: history, the header additions its handler issued, in order
  merged,      \* per request: history, [from, headers, response] of its merge-back
  prior_panics \* per request: history, whether a unit had panicked on its worker before it was dispatched

VARIABLES
  registry,    \* the records ServerFunction::collect() returns, in order
  reg_pc,      \* "start" before register_server_functions ran, "done" after
  router       \* the routes of the Router, a set

register_vars == <<registry, reg_pc, router>>

VARIABLES
  asset_name,  \* the name handed to file_name_looks_immutable
  asset_class  \* Option: what file_name_looks_immutable answered

classify_vars == <<asset_name, asset_class>>

VARIABLES
  env_public_path, \* whether DIOXUS_PUBLIC_PATH is set
  current_exe_ok,  \* whether std::env::current_exe() succeeds
  root_state,      \* the resolved public root: "missing", "unreadable" or "dir"
  tree,            \* the entries below the public root
  router_given,    \* history: the router serve_static_assets was called on
  static_pc        \* "start", then "returned" or "panicked"

static_vars ==
  <<env_public_path, current_exe_ok, root_state, tree, router_given, static_pc>>

VARIABLES
  render_no,       \* number of the render request being served
  render_pc,       \* "idle", "awaiting" (render_to called), "done"
  render_calls,    \* how often render_to was called for this request
  render_outcome,  \* Option: what the renderer returned for this request
  render_response, \* Option: what render_handler returned for this request
  error_log        \* the tracing entries emitted so far

render_vars ==
  <<render_no, render_pc, render_calls, render_outcome, render_response, error_log>>

dispatch_vars ==
  <<debug_assertions, pc, request, worker, polling, ambient, ctx, referrer,
    accepts_html, response, result, reply, yields, steps, handled, own, nops,
    issued, merged, prior_panics>>

\* ------------------------------------------------------------------ FullstackContext
\* FullstackContext::new: a context whose outbound accumulator is an empty map
new_context == [response_headers |-> Some(<<>>)]

\* one addition to an outbound header map: a replacing or an appending one
apply_op(h, o) ==
  IF o.op = "insert" THEN HInsert(h, o.name, o.val) ELSE HAppend(h, o.name, o.val)

\* handler code adding an outbound header to a context; a context whose
\* accumulator was taken ignores it
add_response_header(c, o) ==
  IF IsSome(c.response_headers)
  THEN [c EXCEPT !.response_headers = Some(apply_op(Unwrap(c.response_headers), o))]
  ELSE c

\* take_response_headers: hands the accumulator out and leaves None behind
take_response_headers(c) == c.response_headers
after_take(c) == [c EXCEPT !.response_headers = None]

\* ------------------------------------------------------------------ dispatch steps
capture_referrer(rq) == HGet(rq.headers, "referer")

compute_accepts_html(rq) ==
  LET a == HGet(rq.headers, "accept") IN
  IF ~IsSome(a) THEN FALSE
  ELSE LET s == to_str(Unwrap(a)) IN
       IF IsSome(s) THEN StrContains(Unwrap(s), TextHtml) ELSE FALSE

\* if let Some(headers) = headers { response.headers_mut().extend(headers) }
merge_back(resp, headers) ==
  IF IsSome(headers)
  THEN [resp EXCEPT !.headers = HExtend(@, Unwrap(headers))]
  ELSE resp

\* as has_location, but the answer is always no
has_location_never(resp) == FALSE

has_location(resp) == IsSome(HGet(resp.headers, "location"))

\* as should_redirect, without the Location test
should_redirect_always(resp, acc, ref) == acc /\ IsSome(ref)

should_redirect(resp, acc, ref) == acc /\ IsSome(ref) /\ ~has_location(resp)

\* as redirect_rewrite, but the redirect is built as a fresh response
redirect_rewrite_fresh(resp, acc, ref) ==
  IF should_redirect(resp, acc, ref)
  THEN [status |-> StatusFound, headers |-> Hdr("location", Unwrap(ref)),
        body |-> ""]
  ELSE resp

redirect_rewrite(resp, acc, ref) ==
  IF should_redirect(resp, acc, ref)
  THEN [resp EXCEPT !.status = StatusFound,
                    !.headers = HInsert(@, "location", Unwrap(ref))]
  ELSE resp

\* as match_result, but a failed unit is answered like a successful empty one
match_result_swallow(res, resp, dbg) ==
  IF res = "ok" THEN Unwrap(resp)
  ELSE [status |-> 200, headers |-> <<>>, body |-> ""]

\* match result { Ok(response) => response, Err(err) => 500 ... }
match_result(res, resp, dbg) ==
  IF res = "ok" THEN Unwrap(resp)
  ELSE [status |-> StatusInternalServerError, headers |-> <<>>,
        body |-> IF dbg THEN "Server function panicked: task panicked"
                 ELSE "Internal Server Error"]

\* as exec_worker, for a unit spawned on a work-stealing pool: after a Pending
\* it is resumed by another worker
exec_worker_stealing(r) ==
  IF yields[r] > 0 THEN (worker[r] % NumWorkers) + 1 ELSE worker[r]

\* The worker whose thread runs the pinned unit of request r: the one
\* spawn_pinned chose, for the closure and the whole future it returns.
exec_worker(r) == worker[r]

\* FullstackContext::scope, entering a poll: the task-local slot holds the context
scope_enter(slot, w, r) == [slot EXCEPT ![w] = r]
\* as scope_leave, but the slot keeps the context
scope_leave_leak(slot, w) == slot

\* leaving a poll (Pending, completion or unwinding): the slot is restored
scope_leave(slot, w) == [slot EXCEPT ![w] = 0]

\* FullstackContext::current() on worker w
current(w) == ambient[w]

Log(r, step) == [steps EXCEPT ![r] = Append(@, <<step, exec_worker(r)>>)]

\* state.rt.spawn_pinned(...): the endpoint hands the unit to one worker
spawn_pinned(r, w, rq) ==
  /\ pc[r] = "idle"
  /\ \A q \in 1..(r - 1) : pc[q] # "idle"   \* requests are numbered as they arrive
  \* workers are interchangeable: the choice is any worker already in use or
  \* the lowest-numbered one that is not
  /\ \A v \in 1..(w - 1) : \E q \in Reqs : worker[q] = v
  /\ pc' = [pc EXCEPT ![r] = "queued"]
  /\ request' = [request EXCEPT ![r] = rq]
  /\ worker' = [worker EXCEPT ![r] = w]
  /\ prior_panics' = [prior_panics EXCEPT ![r] =
                        \E q \in Reqs : result[q] = "err" /\ worker[q] = w]
  /\ UNCHANGED <<register_vars, classify_vars, static_vars, render_vars, debug_assertions, issued, polling, ambient, ctx, referrer, accepts_html,
                 response, result, reply, yields, steps, handled, own, nops, merged>>

\* first poll of the unit: lines 93-107, up to the handler being called
context_create(r) ==
  LET w == exec_worker(r) IN
  /\ pc[r] = "queued"
  /\ polling[w] = 0
  /\ polling' = [polling EXCEPT ![w] = r]
  /\ ctx' = [ctx EXCEPT ![r] = new_context]
  /\ referrer' = [referrer EXCEPT ![r] = capture_referrer(request[r])]
  /\ accepts_html' = [accepts_html EXCEPT ![r] = compute_accepts_html(request[r])]
  /\ ambient' = scope_enter(ambient, w, r)
  /\ steps' = Log(r, "context-create")
  /\ pc' = [pc EXCEPT ![r] = "handler"]
  /\ UNCHANGED <<register_vars, classify_vars, static_vars, render_vars, debug_assertions, issued, request, worker, response, result, reply,
                 yields, handled, own, nops, merged, prior_panics>>

\* handler code adds an outbound header through the ambient context
add_header(r, o) ==
  LET w == exec_worker(r)
      c == current(w) IN
  /\ pc[r] = "handler"
  /\ polling[w] = r
  /\ nops' = [nops EXCEPT ![r] = @ + 1]
  /\ issued' = [issued EXCEPT ![r] = Append(@, o)]
  /\ own' = [own EXCEPT ![r] = apply_op(@, o)]
  /\ ctx' = IF c = 0 THEN ctx ELSE [ctx EXCEPT ![c] = add_response_header(@, o)]
  /\ UNCHANGED <<register_vars, classify_vars, static_vars, render_vars, debug_assertions, pc, request, worker, polling, ambient, referrer,
                 accepts_html, response, result, reply, yields, steps, handled,
                 merged, prior_panics>>

\* the handler adds a header, within the number of additions explored
handler_add_header(r, o) ==
  /\ SumTo(nops, MaxReq) < MaxCtxOps
  /\ add_header(r, o)

\* the handler future returns Pending: the poll ends, the worker is free
handler_yield(r) ==
  LET w == exec_worker(r) IN
  /\ pc[r] = "handler"
  /\ polling[w] = r
  /\ SumTo(yields, MaxReq) < MaxYields
  /\ yields' = [yields EXCEPT ![r] = @ + 1]
  /\ ambient' = scope_leave(ambient, w)
  /\ polling' = [polling EXCEPT ![w] = 0]
  /\ pc' = [pc EXCEPT ![r] = "suspended"]
  /\ UNCHANGED <<register_vars, classify_vars, static_vars, render_vars, debug_assertions, issued, request, worker, ctx, referrer, accepts_html,
                 response, result, reply, steps, handled, own, nops, merged,
                 prior_panics>>

\* the worker polls the unit again
handler_resume(r) ==
  LET w == exec_worker(r) IN
  /\ pc[r] = "suspended"
  /\ polling[w] = 0
  /\ polling' = [polling EXCEPT ![w] = r]
  /\ ambient' = scope_enter(ambient, w, r)
  /\ pc' = [pc EXCEPT ![r] = "handler"]
  /\ UNCHANGED <<register_vars, classify_vars, static_vars, render_vars, debug_assertions, issued, request, worker, ctx, referrer, accepts_html,
                 response, result, reply, yields, steps, handled, own, nops,
                 merged, prior_panics>>

\* unwinding out of the unit: the scope guard restores the slot, the task ends
\* and the JoinHandle resolves to Err
Unwind(r) ==
  LET w == exec_worker(r) IN
  /\ ambient' = scope_leave(ambient, w)
  /\ polling' = [polling EXCEPT ![w] = 0]
  /\ result' = [result EXCEPT ![r] = "err"]
  /\ response' = [response EXCEPT ![r] = None]
  /\ pc' = [pc EXCEPT ![r] = "joined"]

\* the handler panics
handler_panic(r) ==
  /\ pc[r] = "handler"
  /\ polling[exec_worker(r)] = r
  /\ Unwind(r)
  /\ UNCHANGED <<register_vars, classify_vars, static_vars, render_vars, debug_assertions, issued, request, worker, ctx, referrer, accepts_html,
                 reply, yields, steps, handled, own, nops, merged, prior_panics>>

\* let mut response = handler(...).await
handler_return(r, resp) ==
  /\ pc[r] = "handler"
  /\ polling[exec_worker(r)] = r
  /\ response' = [response EXCEPT ![r] = Some(resp)]
  /\ handled' = [handled EXCEPT ![r] = Some(resp)]
  /\ steps' = Log(r, "handler-run")
  /\ pc' = [pc EXCEPT ![r] = "returned"]
  /\ UNCHANGED <<register_vars, classify_vars, static_vars, render_vars, debug_assertions, issued, request, worker, polling, ambient, ctx, referrer,
                 accepts_html, result, reply, yields, own, nops, merged,
                 prior_panics>>

\* lines 112-119: current().expect(..), take_response_headers, extend
header_merge(r) ==
  LET w == exec_worker(r)
      c == current(w) IN
  /\ pc[r] = "returned"
  /\ polling[w] = r
  /\ IF c = 0
     THEN /\ Unwind(r)
          /\ UNCHANGED <<ctx, steps, merged>>
     ELSE LET taken == take_response_headers(ctx[c])
              after == merge_back(Unwrap(response[r]), taken) IN
          /\ ctx' = [ctx EXCEPT ![c] = after_take(@)]
          /\ response' = [response EXCEPT ![r] = Some(after)]
          /\ merged' = [merged EXCEPT ![r] =
                          Some([from |-> c, headers |-> taken, to |-> after])]
          /\ steps' = Log(r, "header-merge")
          /\ pc' = [pc EXCEPT ![r] = "merged"]
          /\ UNCHANGED <<polling, ambient, result>>
  /\ UNCHANGED <<register_vars, classify_vars, static_vars, render_vars, debug_assertions, issued, request, worker, referrer, accepts_html, reply,
                 yields, handled, own, nops, prior_panics>>

\* as redirect_and_complete, but the heuristic also runs on a response that was
\* not merged yet
redirect_before_merge(r) ==
  LET w == exec_worker(r)
      before == Unwrap(response[r])
      after == redirect_rewrite(before, accepts_html[r], referrer[r]) IN
  /\ pc[r] \in {"returned", "merged"}
  /\ polling[w] = r
  /\ response' = [response EXCEPT ![r] = Some(after)]
  /\ steps' = IF should_redirect(before, accepts_html[r], referrer[r])
              THEN Log(r, "redirect-rewrite") ELSE steps
  /\ ambient' = scope_leave(ambient, w)
  /\ polling' = [polling EXCEPT ![w] = 0]
  /\ result' = [result EXCEPT ![r] = "ok"]
  /\ pc' = [pc EXCEPT ![r] = "joined"]
  /\ UNCHANGED <<register_vars, classify_vars, static_vars, render_vars, debug_assertions, issued, request, worker, ctx, referrer, accepts_html,
                 reply, yields, handled, own, nops, merged, prior_panics>>

\* lines 121-133: the redirect heuristic, then the scope and the unit complete
redirect_and_complete(r) ==
  LET w == exec_worker(r)
      before == Unwrap(response[r])
      after == redirect_rewrite(before, accepts_html[r], referrer[r]) IN
  /\ pc[r] = "merged"
  /\ polling[w] = r
  /\ response' = [response EXCEPT ![r] = Some(after)]
  /\ steps' = IF should_redirect(before, accepts_html[r], referrer[r])
              THEN Log(r, "redirect-rewrite") ELSE steps
  /\ ambient' = scope_leave(ambient, w)
  /\ polling' = [polling EXCEPT ![w] = 0]
  /\ result' = [result EXCEPT ![r] = "ok"]
  /\ pc' = [pc EXCEPT ![r] = "joined"]
  /\ UNCHANGED <<register_vars, classify_vars, static_vars, render_vars, debug_assertions, issued, request, worker, ctx, referrer, accepts_html,
                 reply, yields, handled, own, nops, merged, prior_panics>>

\* as respond, but only a unit that returned is answered
respond_only_ok(r) ==
  /\ pc[r] = "joined"
  /\ result[r] = "ok"
  /\ reply' = [reply EXCEPT ![r] =
                 Some(match_result(result[r], response[r], debug_assertions))]
  /\ pc' = [pc EXCEPT ![r] = "done"]
  /\ UNCHANGED <<register_vars, classify_vars, static_vars, render_vars, debug_assertions, issued, request, worker, polling, ambient, ctx, referrer,
                 accepts_html, response, result, yields, steps, handled, own, nops,
                 merged, prior_panics>>

\* lines 137-147: the endpoint, resumed on its own task, answers the client
respond(r) ==
  /\ pc[r] = "joined"
  /\ reply' = [reply EXCEPT ![r] =
                 Some(match_result(result[r], response[r], debug_assertions))]
  /\ pc' = [pc EXCEPT ![r] = "done"]
  /\ UNCHANGED <<register_vars, classify_vars, static_vars, render_vars, debug_assertions, issued, request, worker, polling, ambient, ctx, referrer,
                 accepts_html, response, result, yields, steps, handled, own, nops,
                 merged, prior_panics>>

\* ------------------------------------------------------------------ wasm dispatch
\* the one thread of a wasm isolate
IsolateThread == 1

\* make_handler_wasm, first poll of the endpoint's future: the context is made
\* and installed, and the handler is called on the isolate's own thread
wasm_begin(r, rq) ==
  /\ pc[r] = "idle"
  /\ polling[IsolateThread] = 0
  /\ request' = [request EXCEPT ![r] = rq]
  /\ worker' = [worker EXCEPT ![r] = IsolateThread]
  /\ polling' = [polling EXCEPT ![IsolateThread] = r]
  /\ ctx' = [ctx EXCEPT ![r] = new_context]
  /\ ambient' = scope_enter(ambient, IsolateThread, r)
  /\ steps' = [steps EXCEPT ![r] = Append(@, <<"context-create", IsolateThread>>)]
  /\ pc' = [pc EXCEPT ![r] = "handler"]
  /\ UNCHANGED <<register_vars, classify_vars, static_vars, render_vars, debug_assertions, issued, referrer, accepts_html, response,
                 result, reply, yields, handled, own, nops, merged, prior_panics>>

\* as wasm_merge, but the headers of the context are never applied
wasm_merge_skip(resp, c) == resp

\* if let Some(ctx) = current() { if let Some(headers) = take { extend } }
wasm_merge(resp, c) ==
  IF c = 0 THEN resp ELSE merge_back(resp, take_response_headers(ctx[c]))

\* make_handler_wasm after the handler's await: the conditional merge-back,
\* then the scope completes and the endpoint returns the response
wasm_merge_and_return(r) ==
  LET w == exec_worker(r)
      c == current(w)
      after == wasm_merge(Unwrap(response[r]), c) IN
  /\ pc[r] = "returned"
  /\ polling[w] = r
  /\ ctx' = IF c = 0 THEN ctx ELSE [ctx EXCEPT ![c] = after_take(@)]
  /\ response' = [response EXCEPT ![r] = Some(after)]
  /\ merged' = [merged EXCEPT ![r] =
                  Some([from |-> c,
                        headers |-> IF c = 0 THEN None
                                    ELSE take_response_headers(ctx[c]),
                        to |-> after])]
  /\ steps' = IF c = 0 THEN steps ELSE Log(r, "header-merge")
  /\ ambient' = scope_leave(ambient, w)
  /\ polling' = [polling EXCEPT ![w] = 0]
  /\ result' = [result EXCEPT ![r] = "ok"]
  /\ reply' = [reply EXCEPT ![r] = Some(after)]
  /\ pc' = [pc EXCEPT ![r] = "done"]
  /\ UNCHANGED <<register_vars, classify_vars, static_vars, render_vars, debug_assertions, issued, request, worker, referrer,
                 accepts_html, yields, handled, own, nops, prior_panics>>

\* the handler panics on wasm32: nothing catches it, no response is produced
wasm_abort(r) ==
  /\ pc[r] = "handler"
  /\ polling[exec_worker(r)] = r
  /\ pc' = [pc EXCEPT ![r] = "aborted"]
  /\ UNCHANGED <<register_vars, classify_vars, static_vars, render_vars, debug_assertions, issued, request, worker, polling, ambient,
                 ctx, referrer, accepts_html, response, result, reply, yields,
                 steps, handled, own, nops, merged, prior_panics>>

\* The case both paths provide for at their lookup (expect on the native path,
\* if let on the wasm path): when the handler has returned, the task-local slot
\* holds no context.
context_missing(r) ==
  LET w == exec_worker(r) IN
  /\ pc[r] = "returned"
  /\ polling[w] = r
  /\ ambient[w] = r
  /\ ambient' = [ambient EXCEPT ![w] = 0]
  /\ UNCHANGED <<register_vars, classify_vars, static_vars, render_vars, debug_assertions, issued, pc, request, worker, polling,
                 ctx, referrer, accepts_html, response, result, reply, yields,
                 steps, handled, own, nops, merged, prior_panics>>

InitDispatch ==
  /\ debug_assertions \in BOOLEAN
  /\ pc = [r \in Reqs |-> "idle"]
  /\ request = [r \in Reqs |-> [headers |-> <<>>]]
  /\ worker = [r \in Reqs |-> 0]
  /\ polling = [w \in Workers |-> 0]
  /\ ambient = [w \in Workers |-> 0]
  /\ ctx = [r \in Reqs |-> [response_headers |-> None]]
  /\ referrer = [r \in Reqs |-> None]
  /\ accepts_html = [r \in Reqs |-> FALSE]
  /\ response = [r \in Reqs |-> None]
  /\ result = [r \in Reqs |-> "none"]
  /\ reply = [r \in Reqs |-> None]
  /\ yields = [r \in Reqs |-> 0]
  /\ steps = [r \in Reqs |-> <<>>]
  /\ handled = [r \in Reqs |-> None]
  /\ own = [r \in Reqs |-> <<>>]
  /\ nops = [r \in Reqs |-> 0]
  /\ issued = [r \in Reqs |-> <<>>]
  /\ merged = [r \in Reqs |-> None]
  /\ prior_panics = [r \in Reqs |-> FALSE]

\* ------------------------------------------------------------------ registration
\* number of records in the registry
MaxRecords == 3

GET == <<"G","E","T">>
POST == <<"P","O","S","T">>
Methods == {GET, POST}
Paths == { <<"/","a">>, <<"/","b">> }

\* a route of the Router; only the fields of its kind are meaningful
Route(kind, method, path, handler, immutable) ==
  [kind |-> kind, method |-> method, path |-> path, handler |-> handler,
   immutable |-> immutable]

\* as seen_key, but the key is the path alone
seen_key_path_only(func) == func.path

\* format!("{} {}", func.method(), func.path())
seen_key(func) == func.method \o <<" ">> \o func.path

\* self.route(func.path(), func.method_router()): the record's own factory
\* makes the handler that is mounted under its method and path
route_fn(rt, func, idx) ==
  rt \cup {Route("fn", func.method, func.path, idx, FALSE)}

\* as register_from, without the seen set: every record is routed
RECURSIVE register_from_all(_, _, _, _)
register_from_all(funcs, i, seen, rt) ==
  IF i > Len(funcs) THEN rt
  ELSE register_from_all(funcs, i + 1, seen, route_fn(rt, funcs[i], i))

\* the loop of register_server_functions from record i on
RECURSIVE register_from(_, _, _, _)
register_from(funcs, i, seen, rt) ==
  IF i > Len(funcs) THEN rt
  ELSE IF seen_key(funcs[i]) \notin seen
       THEN register_from(funcs, i + 1, seen \cup {seen_key(funcs[i])},
                          route_fn(rt, funcs[i], i))
       ELSE register_from(funcs, i + 1, seen, rt)

register_server_functions ==
  /\ reg_pc = "start"
  /\ router' = register_from(registry, 1, {}, router)
  /\ reg_pc' = "done"
  /\ UNCHANGED <<registry, dispatch_vars, classify_vars, static_vars, render_vars>>

Registries ==
  UNION { [1..n -> [method : Methods, path : Paths]] : n \in 0..MaxRecords }

RegisterIdle ==
  /\ registry = <<>>
  /\ reg_pc = "start"
  /\ router = {}

InitRegister ==
  /\ registry \in Registries
  /\ reg_pc = "start"
  /\ router = {}

\* ------------------------------------------------------------------ asset names
\* longest run of characters drawn after the marker position of a generated name
MaxHashLen == 2

Marker == <<"-","d","x","h">>
HexDigits ==
  {"0","1","2","3","4","5","6","7","8","9",
   "a","b","c","d","e","f","A","B","C","D","E","F"}

\* str::rsplit_once(pat): the text after the last occurrence of pat, if any
Occurrences(s, pat) ==
  {i \in 1..(Len(s) - Len(pat) + 1) : SubSeq(s, i, i + Len(pat) - 1) = pat}
Max(S) == CHOOSE x \in S : \A y \in S : y <= x
rsplit_once(s, pat) ==
  IF Occurrences(s, pat) = {} THEN None
  ELSE LET i == Max(Occurrences(s, pat)) IN
       Some(<<SubSeq(s, 1, i - 1), SubSeq(s, i + Len(pat), Len(s))>>)

\* chars().take_while(|c| *c != '.')
RECURSIVE take_while_not_dot(_)
take_while_not_dot(s) ==
  IF s = <<>> \/ s[1] = "." THEN <<>>
  ELSE <<s[1]>> \o take_while_not_dot(Tail(s))

file_name_looks_immutable(file_name) ==
  LET sp == rsplit_once(file_name, Marker) IN
  /\ IsSome(sp)
  /\ \A c \in Range(take_while_not_dot(Unwrap(sp)[2])) : c \in HexDigits

classify ==
  /\ asset_class = None
  /\ asset_class' = Some(file_name_looks_immutable(asset_name))
  /\ UNCHANGED <<asset_name, dispatch_vars, register_vars, static_vars, render_vars>>

SeqsUpTo(S, n) == UNION { [1..k -> S] : k \in 0..n }

\* generated names: stem, marker or a near miss, run, extension
Names ==
  { st \o mk \o run \o ext :
      st \in { <<>>, <<"b">>, <<"b">> \o Marker \o <<"1">>, <<"b",".">> },
      mk \in { <<>>, Marker, <<"-","d","x">>, <<"d","x","h">> },
      run \in SeqsUpTo({"1", "a", "B", "g", "-"}, MaxHashLen),
      ext \in { <<>>, <<".","w">>, <<".","w",".","z">> } }

ClassifyIdle ==
  /\ asset_name = <<>>
  /\ asset_class = None

InitClassify ==
  /\ asset_name \in Names
  /\ asset_class = None

\* ------------------------------------------------------------------ static assets
IndexHtml == <<"i","n","d","e","x",".","h","t","m","l">>
AppJs == <<"a","p","p",".","j","s">>
AppHashedJs == <<"a","p","p">> \o Marker \o <<"a","b","1","2",".","j","s">>
SubDir == <<"s","u","b">>
StyleHashedCss == <<"s">> \o Marker \o <<"c","a","f","e",".","c","s","s">>
HashedDir == <<"v">> \o Marker \o <<"a","b",".","d">>
XJs == <<"x",".","j","s">>

Entry(path, dir) == [path |-> path, dir |-> dir]

\* the entries a public root may hold
Universe ==
  { Entry(<<IndexHtml>>, FALSE), Entry(<<AppJs>>, FALSE),
    Entry(<<AppHashedJs>>, FALSE),
    Entry(<<SubDir>>, TRUE), Entry(<<SubDir, IndexHtml>>, FALSE),
    Entry(<<SubDir, StyleHashedCss>>, FALSE),
    Entry(<<HashedDir>>, TRUE), Entry(<<HashedDir, XJs>>, FALSE) }

Parent(path) == SubSeq(path, 1, Len(path) - 1)
Trees ==
  { t \in SUBSET Universe :
      \A e \in t : Len(e.path) > 1 => Entry(Parent(e.path), TRUE) \in t }

\* public_path(): the override if set, else the executable's sibling directory
public_path ==
  IF env_public_path THEN Some("override")
  ELSE IF current_exe_ok THEN Some("exe-sibling") ELSE None

\* segments joined by "/", rooted at "/"
RECURSIVE route_of(_)
route_of(path) ==
  IF path = <<>> THEN <<>> ELSE <<"/">> \o path[1] \o route_of(Tail(path))

\* std::fs::read_dir(directory), flattened: the entries directly below it
read_dir(t, directory) ==
  {e \in t : Len(e.path) = Len(directory) + 1 /\ Parent(e.path) = directory}

\* the routes serve_dir_cached adds for the entries of `directory`: the root's
\* index.html is skipped, a directory is mounted whole in debug builds and
\* walked in release builds, a file is mounted with or without the cache header
RECURSIVE dir_routes(_, _, _)
dir_routes(t, directory, dbg) ==
  UNION { IF e.path = <<IndexHtml>> THEN {}
          ELSE IF e.dir
               THEN IF dbg
                    THEN {Route("dir", <<>>, route_of(e.path), 0, FALSE)}
                    ELSE dir_routes(t, e.path, dbg)
               ELSE {Route("file", <<>>, route_of(e.path), 0,
                           file_name_looks_immutable(route_of(e.path)))}
          : e \in read_dir(t, directory) }

serve_dir_cached(rt, t, dbg) == rt \cup dir_routes(t, <<>>, dbg)

serve_static_assets ==
  /\ static_pc = "start"
  /\ router_given' = router
  /\ IF ~IsSome(public_path)
     THEN static_pc' = "returned" /\ router' = router
     ELSE IF root_state # "dir"
          THEN static_pc' = "panicked" /\ router' = router
          ELSE /\ static_pc' = "returned"
               /\ router' = serve_dir_cached(router, tree, debug_assertions)
  /\ UNCHANGED <<env_public_path, current_exe_ok, root_state, tree, registry,
                 reg_pc, dispatch_vars, classify_vars, render_vars>>

StaticIdle ==
  /\ env_public_path = FALSE
  /\ current_exe_ok = TRUE
  /\ root_state = "missing"
  /\ tree = {}
  /\ router_given = {}
  /\ static_pc = "start"

InitStatic ==
  /\ env_public_path \in BOOLEAN
  /\ current_exe_ok \in BOOLEAN
  /\ root_state \in {"missing", "unreadable", "dir"}
  /\ tree \in IF root_state = "dir" THEN Trees ELSE {{}}
  /\ router_given = {}
  /\ static_pc = "start"

\* the router serve_static_assets is called on: empty, or holding a function route
InitRouterForStatic ==
  /\ registry = <<>>
  /\ reg_pc = "done"
  /\ router \in { {}, {Route("fn", GET, <<"/","a">>, 1, FALSE)} }

\* ------------------------------------------------------------------ render_handler
\* number of render requests served in one behaviour
MaxRenders == 2

VHtmlUtf8 == <<"text/html; charset=utf-8">>
VPlain == <<"text/plain">>
VMaxAge == <<"max-age=", "60">>
VNoStore == <<"no-store">>
VCookieA == <<"a=1">>
VCookieB == <<"b=2">>

\* StatusCode::canonical_reason, on the statuses the renderer returns here
canonical_reason(status) ==
  CASE status = 200 -> Some("OK")
    [] status = 403 -> Some("Forbidden")
    [] status = 404 -> Some("Not Found")
    [] status = 500 -> Some("Internal Server Error")
    [] OTHER -> None

\* RenderFreshness::write: the age, and the max-age when there is one
freshness_write(h, f) ==
  LET aged == HInsert(h, "age", <<"0">>) IN
  IF f.max_age THEN HInsert(aged, "cache-control", VMaxAge) ELSE aged

\* as insert_named, but the values are appended
RECURSIVE insert_named_append(_, _, _)
insert_named_append(h, it, i) ==
  IF i > Len(it) THEN h
  ELSE IF IsSome(it[i].key)
       THEN insert_named_append(HAppend(h, Unwrap(it[i].key), it[i].val), it, i + 1)
       ELSE insert_named_append(h, it, i + 1)

\* for (key, value) in headers.into_iter() { if let Some(key) = key { insert } }
RECURSIVE insert_named(_, _, _)
insert_named(h, it, i) ==
  IF i > Len(it) THEN h
  ELSE IF IsSome(it[i].key)
       THEN insert_named(HInsert(h, Unwrap(it[i].key), it[i].val), it, i + 1)
       ELSE insert_named(h, it, i + 1)

\* Ok((status, headers, freshness, rx)) => ...
render_success(o) ==
  [status |-> o.status,
   headers |-> insert_named(
                 freshness_write(HAppend(<<>>, "content-type", VHtmlUtf8), o.freshness),
                 HIntoIter(o.headers), 1),
   body |-> o.body]

\* Err(SSRError::Incremental(e)) => 500 with e.to_string()
render_incremental_failure(o) ==
  [status |-> StatusInternalServerError, headers |-> <<>>, body |-> o.error]

\* as log_render_failure, but nothing is logged
log_render_failure_silent(log, n, o) == log

\* tracing::error!("Failed to render page: {}", e)
log_render_failure(log, n, o) ==
  Append(log, [level |-> "error", request |-> n,
               text |-> <<"Failed to render page: ", o.error>>])

\* as render_http_error, but the supplied body is ignored
render_http_error_reason_only(o) ==
  [status |-> o.status, headers |-> <<>>,
   body |-> IF IsSome(canonical_reason(o.status))
            THEN Unwrap(canonical_reason(o.status))
            ELSE "An unknown error occurred"]

\* Err(SSRError::HttpError { status, message }) => ...
render_http_error(o) ==
  [status |-> o.status, headers |-> <<>>,
   body |-> IF IsSome(o.message) THEN Unwrap(o.message)
            ELSE IF IsSome(canonical_reason(o.status))
                 THEN Unwrap(canonical_reason(o.status))
                 ELSE "An unknown error occurred"]

Outcome(kind, status, headers, freshness, body, error, message) ==
  [kind |-> kind, status |-> status, headers |-> headers, freshness |-> freshness,
   body |-> body, error |-> error, message |-> message]

NoFreshness == [max_age |-> FALSE]

\* what the renderer may return
RenderOutcomes ==
  { Outcome("ok", st, h, f, "stream", "", None) :
      st \in {200, 404},
      h \in { <<>>, Hdr("content-type", VPlain), Hdr("cache-control", VNoStore),
              Hdr2("set-cookie", VCookieA, VCookieB),
              Hdr("x", V1) \o Hdr2("set-cookie", VCookieA, VCookieB) },
      f \in { [max_age |-> FALSE], [max_age |-> TRUE] } }
  \cup { Outcome("incremental", 0, <<>>, NoFreshness, "", e, None) :
           e \in {"disk full", "cache entry unreadable"} }
  \cup { Outcome("http", st, <<>>, NoFreshness, "", "", m) :
           st \in {403, 404, 500, 599},
           m \in {None, Some("page is gone"), Some("")} }

\* render_handler up to the await of render_to
render_begin ==
  /\ render_pc = "idle"
  /\ render_calls' = render_calls + 1
  /\ render_pc' = "awaiting"
  /\ UNCHANGED <<render_no, render_outcome, render_response, error_log,
                 dispatch_vars, register_vars, classify_vars, static_vars>>

\* render_handler from the renderer's answer on: match response { ... }
render_finish(o) ==
  /\ render_pc = "awaiting"
  /\ render_outcome' = Some(o)
  /\ render_response' =
       Some(CASE o.kind = "ok" -> render_success(o)
              [] o.kind = "incremental" -> render_incremental_failure(o)
              [] OTHER -> render_http_error(o))
  /\ error_log' = IF o.kind = "incremental"
                  THEN log_render_failure(error_log, render_no, o)
                  ELSE error_log
  /\ render_pc' = "done"
  /\ UNCHANGED <<render_no, render_calls, dispatch_vars, register_vars,
                 classify_vars, static_vars>>

\* the next render request arrives
render_next ==
  /\ render_pc = "done"
  /\ render_no < MaxRenders
  /\ render_no' = render_no + 1
  /\ render_pc' = "idle"
  /\ render_calls' = 0
  /\ render_outcome' = None
  /\ render_response' = None
  /\ UNCHANGED <<error_log, dispatch_vars, register_vars, classify_vars,
                 static_vars>>

InitRender ==
  /\ render_no = 1
  /\ render_pc = "idle"
  /\ render_calls = 0
  /\ render_outcome = None
  /\ render_response = None
  /\ error_log = <<>>

vars == <<dispatch_vars, register_vars, classify_vars, static_vars, render_vars>>

Init == InitDispatch /\ RegisterIdle /\ ClassifyIdle /\ StaticIdle /\ InitRender

\* Concurrent server-function requests on the native path.
Next ==
  \/ \E r \in Reqs, w \in Workers, rq \in RequestChoices : spawn_pinned(r, w, rq)
  \/ \E r \in Reqs : context_create(r)
  \/ \E r \in Reqs : \E o \in CtxOps(r) : handler_add_header(r, o)
  \/ \E r \in Reqs : handler_yield(r)
  \/ \E r \in Reqs : handler_resume(r)
  \/ \E r \in Reqs : handler_panic(r)
  \/ \E r \in Reqs : \E resp \in HandlerResponses(r) : handler_return(r, resp)
  \/ \E r \in Reqs : header_merge(r)
  \/ \E r \in Reqs : redirect_and_complete(r)
  \/ \E r \in Reqs : respond(r)

Spec == Init /\ [][Next]_vars

\* One server-function request on the native path, over the wide input sets.
NextSingle ==
  \/ \E w \in Workers, rq \in RequestChoicesWide : spawn_pinned(1, w, rq)
  \/ context_create(1)
  \/ \E o \in CtxOpsWide(1) : handler_add_header(1, o)
  \/ handler_yield(1)
  \/ handler_resume(1)
  \/ handler_panic(1)
  \/ \E resp \in HandlerResponsesWide(1) : handler_return(1, resp)
  \/ header_merge(1)
  \/ redirect_and_complete(1)
  \/ respond(1)

SpecSingle == Init /\ [][NextSingle]_vars

\* One request on the native path, where the lookup after the handler may find
\* no context.
NextSingleFault ==
  \/ NextSingle
  \/ context_missing(1)

SpecSingleFault == Init /\ [][NextSingleFault]_vars

\* One request on the wasm path, over the wide input sets, where the lookup
\* after the handler may find no context.
NextWasm ==
  \/ \E rq \in RequestChoicesWide : wasm_begin(1, rq)
  \/ \E o \in CtxOpsWide(1) : handler_add_header(1, o)
  \/ handler_yield(1)
  \/ handler_resume(1)
  \/ wasm_abort(1)
  \/ \E resp \in HandlerResponsesWide(1) : handler_return(1, resp)
  \/ context_missing(1)
  \/ wasm_merge_and_return(1)

SpecWasm == Init /\ [][NextWasm]_vars

\* The same request and the same handler behaviour given to both builds: request
\* 1 goes through the native path; when it was answered, request 2 carries the
\* same request through the wasm path and its handler issues the same header
\* additions and returns the same response.
NextBoth ==
  \/ \E w \in Workers, rq \in RequestChoicesWide : spawn_pinned(1, w, rq)
  \/ context_create(1)
  \/ \E o \in CtxOpsWide(1) : handler_add_header(1, o)
  \/ \E resp \in HandlerResponsesWide(1) : handler_return(1, resp)
  \/ header_merge(1)
  \/ redirect_and_complete(1)
  \/ respond(1)
  \/ pc[1] = "done" /\ wasm_begin(2, request[1])
  \/ nops[2] < Len(issued[1]) /\ add_header(2, issued[1][nops[2] + 1])
  \/ nops[2] = Len(issued[1]) /\ handler_return(2, Unwrap(handled[1]))
  \/ wasm_merge_and_return(2)

SpecBoth == Init /\ [][NextBoth]_vars

\* Building the router from the registry.
NextRegister == register_server_functions

InitForRegister ==
  InitDispatch /\ InitRegister /\ ClassifyIdle /\ StaticIdle /\ InitRender

SpecRegister == InitForRegister /\ [][NextRegister]_vars

\* The asset classifier over generated names.
NextClassify == classify

InitForClassify ==
  InitDispatch /\ RegisterIdle /\ InitClassify /\ StaticIdle /\ InitRender

SpecClassify == InitForClassify /\ [][NextClassify]_vars

\* Mounting the static assets of a public root.
NextStatic == serve_static_assets

InitForStatic ==
  InitDispatch /\ InitRouterForStatic /\ ClassifyIdle /\ InitStatic /\ InitRender

SpecStatic == InitForStatic /\ [][NextStatic]_vars

\* Render requests, one after the other.
NextRender ==
  \/ render_begin
  \/ \E o \in RenderOutcomes : render_finish(o)
  \/ render_next

SpecRender == Init /\ [][NextRender]_vars

\* ------------------------------------------------------------------ claims: dispatch
InScope(r) == pc[r] \in {"handler", "returned", "merged"}
StepNames(r) == [i \in 1..Len(steps[r]) |-> steps[r][i][1]]
DoneOk(r) == pc[r] = "done" /\ result[r] = "ok"

C2_PanicIsolated ==
  \A r \in Reqs :
    pc[r] = "done" =>
      /\ IsSome(reply[r])
      /\ result[r] = "err" => Unwrap(reply[r]).status = StatusInternalServerError
      /\ result[r] = "ok" =>
           /\ reply[r] = response[r]
           /\ Unwrap(reply[r]).body = Unwrap(handled[r]).body

\* C2 witness: one request was answered 500 after its unit panicked and a request
\* dispatched later to the same worker was answered with its handler's response.
C2_Witness ==
  \E r \in Reqs, q \in Reqs :
    /\ q # r /\ pc[q] = "done" /\ result[q] = "err" /\ worker[q] = worker[r]
    /\ Unwrap(reply[q]).status = StatusInternalServerError
    /\ prior_panics[r] /\ DoneOk(r)
    /\ Unwrap(reply[r]).body = Bodies[r]

\* C3: the context a request finds after its handler returned is its own, the
\* headers merged into its response are exactly those its own handler added, and
\* a worker's ambient slot holds a context only while that context's request is
\* being polled inside its scope.
C3_ContextIsolated ==
  /\ \A r \in Reqs :
       IsSome(merged[r]) =>
         /\ Unwrap(merged[r]).from = r
         /\ Unwrap(merged[r]).headers = Some(own[r])
  /\ \A w \in Workers :
       ambient[w] # 0 => polling[w] = ambient[w] /\ InScope(ambient[w])
  /\ \A w \in Workers : polling[w] = 0 => ambient[w] = 0

\* C3 witness: a request merged its own headers on a worker where another
\* request, which had added headers of its own, was suspended at the time.
C3_Witness ==
  \E r \in Reqs, q \in Reqs :
    /\ q # r /\ worker[q] = worker[r]
    /\ pc[q] = "suspended" /\ own[q] # <<>>
    /\ pc[r] = "merged" /\ own[r] # <<>>
    /\ Unwrap(merged[r]).headers = Some(own[r])

\* C4 (as claimed): after merge-back the response holds every header value the
\* handler set and every value the context accumulated, and for a name in both
\* the handler's values come before the context's.
C4_MergeAdditive ==
  IsSome(merged[1]) =>
    LET before == Unwrap(handled[1]).headers
        after == Unwrap(merged[1]).to.headers IN
    /\ Range(HPairs(before)) \subseteq Range(HPairs(after))
    /\ Range(HPairs(own[1])) \subseteq Range(HPairs(after))
    /\ \A e \in Range(before) :
         HContainsKey(own[1], e.name) =>
           HGetAll(after, e.name) = e.vals \o HGetAll(own[1], e.name)

\* The Accept test as the dispatch reads the request: the first Accept value is
\* readable text that contains text/html.
AcceptIncludesTextHtml(rq) ==
  LET vs == HGetAll(rq.headers, "accept") IN
  /\ vs # <<>>
  /\ \A i \in 1..Len(vs[1]) : vs[1][i] # NonAscii
  /\ StrContains(vs[1], TextHtml)

Rewritten(r) == "redirect-rewrite" \in Range(StepNames(r))

\* C5 (as claimed): the response is rewritten to 302 with Location = Referer if
\* and only if Accept includes text/html, a Referer is present and the handler's
\* response has no Location; otherwise status and Location are as the handler set.
C5_RedirectIffHandlerLocation ==
  DoneOk(1) =>
    LET h == Unwrap(handled[1])
        f == Unwrap(reply[1])
        conds == /\ AcceptIncludesTextHtml(request[1])
                 /\ HContainsKey(request[1].headers, "referer")
                 /\ ~HContainsKey(h.headers, "location") IN
    /\ conds => /\ Rewritten(1)
                /\ f.status = StatusFound
                /\ HGetAll(f.headers, "location") = HGetAll(request[1].headers, "referer")
    /\ ~conds => /\ ~Rewritten(1)
                 /\ f.status = h.status
                 /\ HGetAll(f.headers, "location") = HGetAll(h.headers, "location")

\* C5 (amended): the response is rewritten to 302 with Location = Referer if and
\* only if Accept includes text/html, a Referer is present and the response after
\* merge-back has no Location; otherwise the response is the merged one unchanged.
C5_RedirectIffMergedLocation ==
  DoneOk(1) =>
    LET m == Unwrap(merged[1]).to
        f == Unwrap(reply[1])
        conds == /\ AcceptIncludesTextHtml(request[1])
                 /\ HContainsKey(request[1].headers, "referer")
                 /\ ~HContainsKey(m.headers, "location") IN
    /\ conds => /\ Rewritten(1)
                /\ f.status = StatusFound
                /\ HGetAll(f.headers, "location") = <<Unwrap(HGet(request[1].headers, "referer"))>>
                /\ f.body = m.body
    /\ ~conds => ~Rewritten(1) /\ f = m

\* C5 witness: a request was rewritten to 302 although its context had added
\* headers, and its handler had set none named Location.
C5_Witness ==
  /\ DoneOk(1) /\ Rewritten(1)
  /\ own[1] # <<>>
  /\ Unwrap(reply[1]).status = StatusFound
  /\ Unwrap(handled[1]).status = 303

\* ------------------------------------------------------------------ claims: registration
KeyOf(func) == <<func.method, func.path>>
FnRoutes(m, p) == {x \in router : x.kind = "fn" /\ x.method = m /\ x.path = p}
FirstWith(m, p) ==
  CHOOSE i \in 1..Len(registry) :
    /\ KeyOf(registry[i]) = <<m, p>>
    /\ \A j \in 1..(i - 1) : KeyOf(registry[j]) # <<m, p>>

\* C6: once register_server_functions has run, every (method, path) that occurs
\* in the registry has exactly one route, the one of the first record with that
\* method and path.
C6_FirstRecordWins ==
  reg_pc = "done" =>
    \A k \in 1..Len(registry) :
      LET m == registry[k].method
          p == registry[k].path IN
      /\ Cardinality(FnRoutes(m, p)) = 1
      /\ \A x \in FnRoutes(m, p) : x.handler = FirstWith(m, p)

\* C6 witness: the registry held the same method and path three times, and the
\* router was built.
C6_Witness ==
  /\ reg_pc = "done"
  /\ \E i, j, k \in 1..Len(registry) :
       /\ i < j /\ j < k
       /\ KeyOf(registry[i]) = KeyOf(registry[j])
       /\ KeyOf(registry[j]) = KeyOf(registry[k])
  /\ Cardinality(router) = 1

\* ------------------------------------------------------------------ claims: assets
\* the convention as stated: somewhere the marker, then a non-empty run of
\* hexadecimal characters that reaches the extension separator or the end
MatchesConvention(name) ==
  \E i \in Occurrences(name, Marker) :
    \E j \in (i + Len(Marker))..Len(name) :
      /\ \A k \in (i + Len(Marker))..j : name[k] \in HexDigits
      /\ j = Len(name) \/ name[j + 1] = "."

\* C7 (as claimed): a name is classified immutable exactly when its marker is
\* followed by a non-empty run of hexadecimal characters up to the extension
\* separator; with an empty run (bundle-dxh.wasm) it is not immutable.
C7_ClassifierMatchesConvention ==
  IsSome(asset_class) => Unwrap(asset_class) = MatchesConvention(asset_name)

\* the public root that serve_static_assets resolved is not a readable directory
RootUnusable == ~IsSome(public_path) \/ root_state # "dir"

\* C8 (as claimed): with a public root that does not exist or cannot be read,
\* serve_static_assets returns the router it was given, without a panic.
C8_MissingRootLeavesRouter ==
  (static_pc # "start" /\ RootUnusable) =>
    static_pc = "returned" /\ router = router_given

\* ------------------------------------------------------------------ claims: render
RenderDone(kind) ==
  render_pc = "done" /\ Unwrap(render_outcome).kind = kind
ErrorEntries(n) ==
  {i \in 1..Len(error_log) : error_log[i].level = "error" /\ error_log[i].request = n}

\* C9: when the renderer returns IncrementalFailure(e), render_handler answers
\* 500 with e's display text as body, emits exactly one error-level log entry
\* for that request, and has called the renderer once.
C9_IncrementalFailure ==
  RenderDone("incremental") =>
    LET e == Unwrap(render_outcome).error
        resp == Unwrap(render_response) IN
    /\ resp.status = 500
    /\ resp.body = e
    /\ Cardinality(ErrorEntries(render_no)) = 1
    /\ \A i \in ErrorEntries(render_no) : error_log[i].text[2] = e
    /\ render_calls = 1

\* C9 witness: the second request failed with "disk full" after the first had
\* failed too, and was answered 500 "disk full".
C9_Witness ==
  /\ render_no = 2 /\ RenderDone("incremental")
  /\ Len(error_log) = 2
  /\ Unwrap(render_outcome).error = "disk full"
  /\ Unwrap(render_response).body = "disk full"

\* the standard reason phrases of the statuses used here
StandardReason(status) ==
  CASE status = 403 -> "Forbidden"
    [] status = 404 -> "Not Found"
    [] status = 500 -> "Internal Server Error"
    [] OTHER -> ""

\* C10: when the renderer returns HttpFailure{status, body}, render_handler
\* answers with that status; the body is the supplied one when there is one,
\* else the status's standard reason phrase, else the unknown-error text.
C10_HttpFailure ==
  RenderDone("http") =>
    LET o == Unwrap(render_outcome)
        resp == Unwrap(render_response) IN
    /\ resp.status = o.status
    /\ IsSome(o.message) => resp.body = Unwrap(o.message)
    /\ (~IsSome(o.message) /\ StandardReason(o.status) # "") =>
         resp.body = StandardReason(o.status)
    /\ (~IsSome(o.message) /\ StandardReason(o.status) = "") =>
         resp.body = "An unknown error occurred"

\* C10 witness: a 404 without body was answered 404 "Not Found".
C10_Witness ==
  /\ RenderDone("http")
  /\ Unwrap(render_outcome).status = 404 /\ Unwrap(render_outcome).message = None
  /\ Unwrap(render_response).status = 404
  /\ Unwrap(render_response).body = "Not Found"

\* ------------------------------------------------------------------ claims: order and frame
StepOrder == <<"context-create", "handler-run", "header-merge", "redirect-rewrite">>
IsPrefix(a, b) == Len(a) <= Len(b) /\ a = SubSeq(b, 1, Len(a))

\* C11: within one request the steps occur in the order context-create,
\* handler-run, header-merge, redirect-rewrite: a handler runs only with its
\* context created and installed, the merge happens only on a response the
\* handler has returned, and a rewrite only on a merged response.
C11_StepsInOrder ==
  \A r \in Reqs :
    /\ IsPrefix(StepNames(r), StepOrder)
    /\ pc[r] = "handler" =>
         /\ StepNames(r) = <<"context-create">>
         /\ ambient[worker[r]] = r
    /\ IsSome(handled[r]) <=> Len(steps[r]) >= 2
    /\ IsSome(merged[r]) <=> Len(steps[r]) >= 3
    /\ result[r] = "ok" => IsSome(merged[r])

\* C11 witness: two requests have each gone through all four steps.
C11_Witness ==
  \A r \in Reqs : pc[r] = "done" /\ StepNames(r) = StepOrder

WithoutLocation(h) == SelectSeq(h, LAMBDA e : e.name # "location")

\* C12: a redirect rewrite changes the status to 302 and Location to the Referer
\* value and nothing else: the body and every other header are as after the
\* merge-back.
C12_RewriteFrame ==
  (DoneOk(1) /\ Rewritten(1)) =>
    LET m == Unwrap(merged[1]).to
        f == Unwrap(reply[1]) IN
    /\ f.body = m.body
    /\ WithoutLocation(f.headers) = WithoutLocation(m.headers)
    /\ f.status = StatusFound
    /\ HGetAll(f.headers, "location") = <<Unwrap(referrer[1])>>

\* C12 witness: a rewritten response kept a handler header with two values and
\* a header that came from the context.
C12_Witness ==
  /\ DoneOk(1) /\ Rewritten(1)
  /\ HGetAll(Unwrap(reply[1]).headers, "x") = <<V1, V3>>
  /\ HGetAll(Unwrap(reply[1]).headers, "y") = <<V2>>
  /\ Unwrap(reply[1]).body = Bodies[1]

\* C18: when the handler set no Location but the context accumulated one, no
\* rewrite happens, whatever Accept and Referer are; the final response keeps
\* the context's Location and the handler's status.
C18_ContextLocationBlocksRewrite ==
  (DoneOk(1) /\ ~HContainsKey(Unwrap(handled[1]).headers, "location")
             /\ HContainsKey(own[1], "location")) =>
    /\ ~Rewritten(1)
    /\ Unwrap(reply[1]).status = Unwrap(handled[1]).status
    /\ HGetAll(Unwrap(reply[1]).headers, "location") = HGetAll(own[1], "location")

\* C18 witness: Accept included text/html and a Referer was present, the handler
\* answered 200 without Location, and the final response is 200 with the
\* context's Location.
C18_Witness ==
  /\ DoneOk(1)
  /\ accepts_html[1] /\ IsSome(referrer[1])
  /\ Unwrap(handled[1]).headers = Hdr("x", V1)
  /\ Unwrap(reply[1]).status = 200
  /\ HGetAll(Unwrap(reply[1]).headers, "location") = <<VCtx>>

\* ------------------------------------------------------------------ claims: registration key
Routed(k) == \E x \in router : x.kind = "fn" /\ x.handler = k

\* C19: a record is skipped only when an earlier record has the same method and
\* the same path; records that differ in method or in path are both routed, and
\* the string key is different for different (method, path) pairs.
C19_SkipOnlyExactDuplicate ==
  /\ reg_pc = "done" =>
       \A k \in 1..Len(registry) :
         Routed(k) <=>
           ~ \E j \in 1..(k - 1) : KeyOf(registry[j]) = KeyOf(registry[k])
  /\ \A i, j \in 1..Len(registry) :
       seen_key(registry[i]) = seen_key(registry[j])
         => KeyOf(registry[i]) = KeyOf(registry[j])

\* C19 witness: GET /a, POST /a, GET /a were registered; the first two are both
\* routed and the third is skipped.
C19_Witness ==
  /\ reg_pc = "done"
  /\ Len(registry) = 3
  /\ KeyOf(registry[1]) = <<GET, <<"/","a">> >>
  /\ KeyOf(registry[2]) = <<POST, <<"/","a">> >>
  /\ KeyOf(registry[3]) = <<GET, <<"/","a">> >>
  /\ Routed(1) /\ Routed(2) /\ ~Routed(3)

\* ------------------------------------------------------------------ claims: render success
HeaderNames(h) == {h[i].name : i \in 1..Len(h)}

\* C14: when the renderer succeeds the response has the renderer's status and
\* its stream as body; Content-Type is text/html; charset=utf-8 unless the
\* renderer's headers hold a Content-Type, which then is the one sent; and under
\* a name written both by the freshness value and by the renderer only the
\* renderer's value is sent.
C14_RenderSuccess ==
  RenderDone("ok") =>
    LET o == Unwrap(render_outcome)
        resp == Unwrap(render_response)
        fresh == HeaderNames(freshness_write(<<>>, o.freshness)) IN
    /\ resp.status = o.status
    /\ resp.body = o.body
    /\ HGetAll(resp.headers, "content-type") =
         IF HContainsKey(o.headers, "content-type")
         THEN <<Unwrap(HGet(o.headers, "content-type"))>>
         ELSE <<VHtmlUtf8>>
    /\ \A n \in fresh \cap HeaderNames(o.headers) :
         /\ HGetAll(resp.headers, n) # <<>>
         /\ Range(HGetAll(resp.headers, n)) \subseteq Range(HGetAll(o.headers, n))

\* C14 witness: the freshness value wrote a max-age and the renderer's headers
\* said no-store; the response says no-store, with the default Content-Type.
C14_Witness ==
  /\ RenderDone("ok")
  /\ Unwrap(render_outcome).freshness.max_age
  /\ Unwrap(render_outcome).headers = Hdr("cache-control", VNoStore)
  /\ HGetAll(Unwrap(render_response).headers, "cache-control") = <<VNoStore>>
  /\ HGetAll(Unwrap(render_response).headers, "content-type") = <<VHtmlUtf8>>

\* C15: when the renderer succeeds every (name, value) pair of the renderer's
\* header multimap is in the response, every value of a name with several
\* values included.
C15_EveryRendererPairSent ==
  RenderDone("ok") =>
    Range(HPairs(Unwrap(render_outcome).headers))
      \subseteq Range(HPairs(Unwrap(render_response).headers))

\* ------------------------------------------------------------------ claims: static cache policy
Last(path) == path[Len(path)]
ServedFiles == {e \in tree : ~e.dir /\ e.path # <<IndexHtml>>}
\* the file's responses carry the immutable Cache-Control: its route wraps the
\* file service in cache_response_forever (a directory mount adds no header)
ServedImmutable(e) ==
  \E x \in router : x.kind = "file" /\ x.path = route_of(e.path) /\ x.immutable

\* C16: a served file's responses carry the immutable Cache-Control exactly
\* when the file's own name matches the fingerprint convention, in nested
\* directories as under the root, and never because of a directory name on its
\* path.
C16_ImmutableIffOwnName ==
  (static_pc = "returned" /\ ~RootUnusable) =>
    \A e \in ServedFiles : ServedImmutable(e) <=> MatchesConvention(Last(e.path))

\* ------------------------------------------------------------------ claims: one response per request
PanicBodies == {"Server function panicked: task panicked", "Internal Server Error"}

\* the unit of request r has terminated, by returning or by panicking
Terminated(r) == result[r] # "none"

AnsweredOnce(r) ==
  /\ Terminated(r) <=> pc[r] \in {"joined", "done"}
  /\ IsSome(reply[r]) <=> pc[r] = "done"
  /\ pc[r] = "joined" => ENABLED respond(r)
  /\ (pc[r] = "done" /\ result[r] = "ok") =>
       /\ Unwrap(reply[r]) =
            redirect_rewrite(Unwrap(merged[r]).to, accepts_html[r], referrer[r])
       /\ Unwrap(reply[r]).body = Unwrap(handled[r]).body
       /\ Unwrap(reply[r]).status \in 100..599
  /\ (pc[r] = "done" /\ result[r] = "err") =>
       /\ Unwrap(reply[r]).status = StatusInternalServerError
       /\ Unwrap(reply[r]).headers = <<>>
       /\ Unwrap(reply[r]).body \in PanicBodies

\* C13: every dispatched request whose unit terminates, by returning or by a
\* panic (the one on a missing ambient context included), is answered with one
\* response: the post-processed handler response when the unit returned, the 500
\* when it panicked; the answer is always ready to be given once the unit has
\* terminated, it is given once, and it never changes afterwards.
C13_ExactlyOneResponse ==
  /\ [](\A r \in Reqs : AnsweredOnce(r))
  /\ [][\A r \in Reqs : IsSome(reply[r]) => reply'[r] = reply[r]]_vars

\* C13 witness: the handler had returned, the lookup found no context, the unit
\* panicked and the request was answered 500.
C13_Witness ==
  /\ pc[1] = "done" /\ result[1] = "err"
  /\ IsSome(handled[1])
  /\ ~IsSome(merged[1])
  /\ Unwrap(reply[1]).status = StatusInternalServerError

\* ------------------------------------------------------------------ claims: missing context
\* the unit of request r is past its lookup, and the lookup found no context
LookupFoundNone(r) ==
  /\ IsSome(handled[r])
  /\ pc[r] \in {"joined", "done"}
  /\ ~IsSome(merged[r]) \/ Unwrap(merged[r]).from = 0

\* C17: on the native and on the wasm path, when the lookup after the handler
\* finds no ambient context the request is aborted; the handler's response is
\* never returned as a normal result with the merge skipped.
C17_MissingContextIsFatal ==
  \A r \in Reqs :
    LookupFoundNone(r) =>
      /\ result[r] = "err"
      /\ IsSome(reply[r]) => Unwrap(reply[r]) # Unwrap(handled[r])

\* ------------------------------------------------------------------ claims: native and wasm
\* request 2 was given to the wasm path with what request 1 gave the native one
SameInputs ==
  /\ request[2] = request[1]
  /\ handled[2] = handled[1]
  /\ issued[2] = issued[1]

\* the three redirect conditions, the Location one read on the merged response
\* (when the merged response has no Location the handler's has none either, so
\* the requests where the conditions as read on the handler's response do not
\* all hold are among these)
RedirectConditions(r) ==
  /\ AcceptIncludesTextHtml(request[r])
  /\ HContainsKey(request[r].headers, "referer")
  /\ ~HContainsKey(Unwrap(merged[r]).to.headers, "location")

\* C20: for the same request and the same handler behaviour, without a handler
\* panic and unless all three redirect conditions hold, the native and the wasm
\* path return the same response (status, headers after merge-back, body); and
\* the wasm path never rewrites status or Location.
C20_NativeWasmAgree ==
  (DoneOk(1) /\ pc[2] = "done" /\ SameInputs) =>
    /\ ~RedirectConditions(1) => reply[2] = reply[1]
    /\ Unwrap(reply[2]).status = Unwrap(handled[2]).status
    /\ HGetAll(Unwrap(reply[2]).headers, "location") =
         IF HContainsKey(own[2], "location")
         THEN HGetAll(own[2], "location")
         ELSE HGetAll(Unwrap(handled[2]).headers, "location")
    /\ RedirectConditions(1) => Unwrap(reply[2]) = Unwrap(merged[1]).to

\* C20 witness: Accept included text/html, a Referer was present and the handler
\* set Location; the context had added two headers, and both paths answered 303
\* with the same headers and body.
C20_Witness ==
  /\ DoneOk(1) /\ pc[2] = "done" /\ SameInputs
  /\ accepts_html[1] /\ IsSome(referrer[1])
  /\ Unwrap(handled[1]).status = 303
  /\ HContainsKey(Unwrap(handled[1]).headers, "location")
  /\ Len(issued[2]) = 2
  /\ reply[2] = reply[1]
  /\ HContainsKey(Unwrap(reply[2]).headers, "y")

====
